---- MODULE Spec2Model ----
(***************************************************************************)
(* LineageTrialComponent (src/sagemaker/lineage/lineage_trial_component.py) *)
(* as a state machine: one record instance held by a caller, the remote    *)
(* trial-component store, the remote tag service and the lineage-query     *)
(* engine.  Every public call is one action; `last` is the log of the most *)
(* recent call (requests issued, outcome).                                 *)
(***************************************************************************)
EXTENDS Naturals, Sequences, FiniteSets

VARIABLES
    store,      \* remote trial components: name -> [exists, attrs]
    tags,       \* remote tag service: resource arn -> ordered tag list
    graph,      \* lineage graph held by the query engine: ordered vertices
    engine,     \* condition of the query engine: "ok" or the error it raises
    rec,        \* the caller's LineageTrialComponent instance
    orig,       \* the instance's attributes as they were when it was loaded
    last,       \* log of the most recent call
    touched,    \* the caller has assigned to the instance's name or arn since the load
    nAssign,    \* local attribute assignments made so far
    nEnv        \* remote changes made by other parties so far

vars == <<store, tags, graph, engine, rec, orig, touched, last, nAssign, nEnv>>

-----------------------------------------------------------------------------
(* Bounds *)

MaxAssign == 1
MaxEnv == 2

-----------------------------------------------------------------------------
(* Value universe *)

None == "None"

Names == {"tc-1", "tc-2"}

ArnOf(n) == IF n = "tc-1" THEN "arn:tc-1" ELSE "arn:tc-2"

Arns == {ArnOf(n) : n \in Names}

Vals == {"a", "b"}

Omitted == "omitted"

ASCENDANTS == "ASCENDANTS"
DESCENDANTS == "DESCENDANTS"
BOTH == "BOTH"
LineageQueryDirectionEnum == {ASCENDANTS, DESCENDANTS, BOTH}

ARTIFACT == "ARTIFACT"
CONTEXT == "CONTEXT"
DATASET == "DATASET"
MODEL == "MODEL"
ENDPOINT == "ENDPOINT"

Range(s) == {s[i] : i \in 1..Len(s)}

-----------------------------------------------------------------------------
(* The class body: attributes, operation names, payload member lists *)

Fields ==
    {"trial_component_name", "trial_component_arn", "display_name", "source",
     "status", "start_time", "end_time", "creation_time", "created_by",
     "last_modified_time", "last_modified_by", "parameters", "input_artifacts",
     "output_artifacts", "metrics", "parameters_to_remove",
     "input_artifacts_to_remove", "output_artifacts_to_remove", "tags"}

ClassDefaults == [f \in Fields |-> None]

\* The identity of the remote resource.
Identity == {"trial_component_name", "trial_component_arn"}

\* Variant: the load operation name slipped to the delete operation.
BotoLoadAsDelete == "delete_trial_component"

_boto_load_method == "describe_trial_component"
_boto_update_method == "update_trial_component"
_boto_delete_method == "delete_trial_component"

\* Variant: the update allow-list also names trial_component_arn.
UpdateMembersWithArn ==
    <<"trial_component_name", "trial_component_arn", "display_name", "status",
      "start_time", "end_time", "parameters", "input_artifacts",
      "output_artifacts", "parameters_to_remove", "input_artifacts_to_remove",
      "output_artifacts_to_remove">>

_boto_update_members ==
    <<"trial_component_name", "display_name", "status", "start_time",
      "end_time", "parameters", "input_artifacts", "output_artifacts",
      "parameters_to_remove", "input_artifacts_to_remove",
      "output_artifacts_to_remove">>

\* Variant: the delete payload list copied from the update allow-list.
DeleteMembersAsUpdate == _boto_update_members

_boto_delete_members == <<"trial_component_name">>

PipelineExecutionArnKey == "sagemaker:pipeline-execution-arn"

-----------------------------------------------------------------------------
(* The remote trial-component service behind sagemaker_client *)

MapFields == {"parameters", "input_artifacts", "output_artifacts"}

ToRemoveOf(f) ==
    IF f = "parameters" THEN "parameters_to_remove"
    ELSE IF f = "input_artifacts" THEN "input_artifacts_to_remove"
    ELSE "output_artifacts_to_remove"

ToRemoveFields == {ToRemoveOf(f) : f \in MapFields}

\* What the service keeps for a resource named n when it is first created.
RemoteAttrs(n) ==
    [f \in Fields |->
        IF f = "trial_component_name" THEN n
        ELSE IF f = "trial_component_arn" THEN ArnOf(n)
        ELSE IF f \in ToRemoveFields \cup {"tags"} THEN None
        ELSE "a"]

Return(v) == [kind |-> "return", value |-> v]
Raise(e) == [kind |-> "raise", value |-> e]
NoResult == [kind |-> "none", value |-> None]

Request(method, kwargs) == [method |-> method, kwargs |-> kwargs]

TrialComponentOperations ==
    {"describe_trial_component", "update_trial_component", "delete_trial_component"}

Known(kwargs) ==
    /\ "trial_component_name" \in DOMAIN kwargs
    /\ kwargs["trial_component_name"] \in Names
    /\ store[kwargs["trial_component_name"]].exists

\* The attributes the service holds after an update with these kwargs.
Merged(old, kwargs) ==
    [f \in Fields |->
        IF f \in (DOMAIN kwargs) \ (ToRemoveFields \cup {"trial_component_name"})
            THEN kwargs[f]
        ELSE IF f \in MapFields /\ ToRemoveOf(f) \in DOMAIN kwargs THEN None
        ELSE old[f]]

\* The response of the service to one request, in the current store.
sagemaker_client(req) ==
    IF req.method \notin TrialComponentOperations THEN Raise("ValidationError")
    ELSE IF ~Known(req.kwargs) THEN Raise("ResourceNotFound")
    ELSE IF req.method = "describe_trial_component"
        THEN Return(store[req.kwargs["trial_component_name"]].attrs)
    ELSE Return([trial_component_arn |->
                    store[req.kwargs["trial_component_name"]].attrs["trial_component_arn"]])

\* The store after the service has handled one request.
StoreAfter(req) ==
    IF ~Known(req.kwargs) THEN store
    ELSE IF req.method = "update_trial_component"
        THEN [store EXCEPT ![req.kwargs["trial_component_name"]].attrs =
                                Merged(@, req.kwargs)]
    ELSE IF req.method = "delete_trial_component"
        THEN [store EXCEPT ![req.kwargs["trial_component_name"]].exists = FALSE]
    ELSE store

-----------------------------------------------------------------------------
(* The record base mechanism: payload selection for update and delete *)

\* The members of the list that the instance holds a value for, with the values.
_invoke_api_kwargs(attrs, members) ==
    [f \in {m \in Range(members) : attrs[m] # None} |-> attrs[f]]

-----------------------------------------------------------------------------
\* with_boto: the response's members become the instance's attributes.
with_boto(attrs, response) ==
    [f \in Fields |-> IF f \in DOMAIN response THEN response[f] ELSE attrs[f]]

-----------------------------------------------------------------------------
(* The call log *)

Log(op, arg, self, reqs, result) ==
    LET repeat == last.op = op /\ last.arg = arg /\ last.self = self
    IN  [tick |-> 1 - last.tick, op |-> op, arg |-> arg, self |-> self,
         reqs |-> reqs, result |-> result,
         repeat |-> repeat,
         changed |-> /\ repeat
                     /\ \/ last.result.kind # result.kind
                        \/ last.result.value # result.value]

-----------------------------------------------------------------------------
(* Initial state: no instance yet; tc-1 exists remotely, tc-2 may *)

Init ==
    /\ \E e2 \in BOOLEAN :
        store = [n \in Names |->
                    [exists |-> (n = "tc-1" \/ e2), attrs |-> RemoteAttrs(n)]]
    /\ tags = [a \in Arns |-> <<>>]
    /\ graph = <<>>
    /\ engine = "ok"
    /\ rec = [live |-> FALSE, attrs |-> ClassDefaults]
    /\ orig = ClassDefaults
    /\ touched = FALSE
    /\ last = [tick |-> 0, op |-> "none", arg |-> None, self |-> None,
               reqs |-> <<>>, result |-> NoResult,
               repeat |-> FALSE, changed |-> FALSE]
    /\ nAssign = 0
    /\ nEnv = 0

-----------------------------------------------------------------------------
(* load: lines 107-125 *)

\* Variant: load ignores the name it is given.
LoadRequestFixedName(trial_component_name) ==
    Request(_boto_load_method, [trial_component_name |-> "tc-1"])

LoadRequest(trial_component_name) ==
    Request(_boto_load_method, [trial_component_name |-> trial_component_name])

load(trial_component_name) ==
    LET req == LoadRequest(trial_component_name)
        resp == sagemaker_client(req)
    IN  /\ store' = StoreAfter(req)
        /\ IF resp.kind = "return"
             THEN /\ rec' = [live |-> TRUE,
                             attrs |-> with_boto(ClassDefaults, resp.value)]
                  /\ orig' = with_boto(ClassDefaults, resp.value)
                  /\ touched' = FALSE
                  /\ last' = Log("load", trial_component_name, None, <<req>>,
                                 Return(with_boto(ClassDefaults, resp.value)))
             ELSE /\ UNCHANGED <<rec, orig, touched>>
                  /\ last' = Log("load", trial_component_name, None, <<req>>, resp)
        /\ UNCHANGED <<tags, graph, engine, nAssign, nEnv>>

-----------------------------------------------------------------------------
(* Assignment to a public attribute of the instance: lines 67-85 *)

AssignValues(f) ==
    IF f = "trial_component_name" THEN Names
    ELSE IF f = "trial_component_arn" THEN Arns
    ELSE Vals

Assign(f, v) ==
    /\ rec.live
    /\ nAssign < MaxAssign
    /\ rec' = [rec EXCEPT !.attrs[f] = v]
    /\ touched' = (touched \/ f \in Identity)
    /\ nAssign' = nAssign + 1
    /\ UNCHANGED <<store, tags, graph, engine, orig, last, nEnv>>

-----------------------------------------------------------------------------
(* update and delete: inherited, driven by lines 89-105 *)

update ==
    LET req == Request(_boto_update_method,
                       _invoke_api_kwargs(rec.attrs, _boto_update_members))
    IN  /\ rec.live
        /\ store' = StoreAfter(req)
        /\ last' = Log("update", None, rec.attrs["trial_component_name"], <<req>>,
                       sagemaker_client(req))
        /\ UNCHANGED <<tags, graph, engine, rec, orig, touched, nAssign, nEnv>>

delete ==
    LET req == Request(_boto_delete_method,
                       _invoke_api_kwargs(rec.attrs, _boto_delete_members))
    IN  /\ rec.live
        /\ store' = StoreAfter(req)
        /\ last' = Log("delete", None, rec.attrs["trial_component_name"], <<req>>,
                       sagemaker_client(req))
        /\ UNCHANGED <<tags, graph, engine, rec, orig, touched, nAssign, nEnv>>

-----------------------------------------------------------------------------
(* The remote tag service and pipeline_execution_arn: lines 127-139 *)

Tag(k, v) == [Key |-> k, Value |-> v]

TagUniverse ==
    {Tag(PipelineExecutionArnKey, "arn:pipeline-1"),
     Tag(PipelineExecutionArnKey, "arn:pipeline-2"),
     Tag("owner", "arn:pipeline-1")}

\* The response of list_tags(ResourceArn=arn).
list_tags(kwargs) ==
    [Tags |-> IF kwargs.ResourceArn \in DOMAIN tags THEN tags[kwargs.ResourceArn]
              ELSE <<>>]

ListTagsRequest(attrs) ==
    Request("list_tags", [ResourceArn |-> attrs["trial_component_arn"]])

\* Variant: the scan does not stop at the first match, so the last one wins.
RECURSIVE ScanTagsLastWins(_, _)
ScanTagsLastWins(ts, found) ==
    IF ts = <<>> THEN found
    ELSE IF Head(ts).Key = PipelineExecutionArnKey
        THEN ScanTagsLastWins(Tail(ts), Head(ts).Value)
    ELSE ScanTagsLastWins(Tail(ts), found)

\* for tag in tags: if tag["Key"] == ...: return tag["Value"]; return None
\* (found is the value returned when the loop runs out: None)
RECURSIVE ScanTags(_, _)
ScanTags(ts, found) ==
    IF ts = <<>> THEN found
    ELSE IF Head(ts).Key = PipelineExecutionArnKey THEN Head(ts).Value
    ELSE ScanTags(Tail(ts), found)

\* Variant: a result obtained before is returned again without asking.
PipelineResultCached(req) ==
    IF last.op = "pipeline_execution_arn" /\ last.result.kind = "return"
        THEN last.result
    ELSE Return(ScanTags(list_tags(req.kwargs).Tags, None))

PipelineResult(req) == Return(ScanTags(list_tags(req.kwargs).Tags, None))

\* Variant: the looked-up value is stored into trial_component_arn.
PipelineStoresArn ==
    LET req == ListTagsRequest(rec.attrs)
        res == PipelineResult(req)
    IN  /\ rec.live
        /\ last' = Log("pipeline_execution_arn", None,
                       rec.attrs["trial_component_arn"], <<req>>, res)
        /\ rec' = [rec EXCEPT !.attrs["trial_component_arn"] = res.value]
        /\ UNCHANGED <<store, tags, graph, engine, orig, touched, nAssign, nEnv>>

pipeline_execution_arn ==
    LET req == ListTagsRequest(rec.attrs)
    IN  /\ rec.live
        /\ last' = Log("pipeline_execution_arn", None,
                       rec.attrs["trial_component_arn"], <<req>>,
                       PipelineResult(req))
        /\ UNCHANGED <<store, tags, graph, engine, rec, orig, touched, nAssign, nEnv>>

-----------------------------------------------------------------------------
(* The lineage-query engine and the vertex conversion *)

Vertex(arn, entity, source, side, linked) ==
    [arn |-> arn, lineage_entity |-> entity, lineage_source |-> source,
     side |-> side, linked |-> linked]

VertexUniverse ==
    {Vertex("arn:ds-1", ARTIFACT, DATASET, ASCENDANTS, "arn:tc-1"),
     Vertex("arn:ds-2", ARTIFACT, DATASET, DESCENDANTS, "arn:tc-1"),
     Vertex("arn:md-1", ARTIFACT, MODEL, DESCENDANTS, "arn:tc-1"),
     Vertex("arn:md-2", ARTIFACT, MODEL, ASCENDANTS, "arn:tc-1"),
     Vertex("arn:ep-1", CONTEXT, ENDPOINT, DESCENDANTS, "arn:tc-1"),
     Vertex("arn:ds-3", ARTIFACT, DATASET, ASCENDANTS, "arn:tc-2")}

LineageFilter(entities, sources) == [entities |-> entities, sources |-> sources]

QueryRequest(start_arns, query_filter, direction, include_edges) ==
    Request("query", [start_arns |-> start_arns, query_filter |-> query_filter,
                      direction |-> direction, include_edges |-> include_edges])

Matches(v, kwargs) ==
    /\ v.linked \in Range(kwargs.start_arns)
    /\ v.lineage_entity \in Range(kwargs.query_filter.entities)
    /\ v.lineage_source \in Range(kwargs.query_filter.sources)
    /\ kwargs.direction = BOTH \/ v.side = kwargs.direction

\* LineageQuery(session).query(**kwargs): the vertices, in the engine's order,
\* or the engine's error.
LineageQuery_query(kwargs) ==
    IF engine # "ok" THEN Raise(engine)
    ELSE Return([vertices |-> SelectSeq(graph, LAMBDA v : Matches(v, kwargs))])

\* vertex.to_lineage_object(): the domain object of an artifact vertex.
to_lineage_object(v) ==
    [class |-> IF v.lineage_source = DATASET THEN "DatasetArtifact"
               ELSE IF v.lineage_source = MODEL THEN "ModelArtifact"
               ELSE "Artifact",
     artifact_arn |-> v.arn]

-----------------------------------------------------------------------------
(* dataset_artifacts: lines 141-162; models: lines 164-184 *)

\* Variant: dataset_artifacts defaults to DESCENDANTS.
DatasetDirectionDescendants(arg) == IF arg = Omitted THEN DESCENDANTS ELSE arg

dataset_artifacts_direction(arg) == IF arg = Omitted THEN ASCENDANTS ELSE arg

\* Variant: models defaults to ASCENDANTS.
ModelsDirectionAscendants(arg) == IF arg = Omitted THEN ASCENDANTS ELSE arg

models_direction(arg) == IF arg = Omitted THEN DESCENDANTS ELSE arg

dataset_artifacts_request(attrs, direction) ==
    QueryRequest(<<attrs["trial_component_arn"]>>,
                 LineageFilter(<<ARTIFACT>>, <<DATASET>>), direction, FALSE)

models_request(attrs, direction) ==
    QueryRequest(<<attrs["trial_component_arn"]>>,
                 LineageFilter(<<ARTIFACT>>, <<MODEL>>), direction, FALSE)

\* [vertex.to_lineage_object() for vertex in query_result.vertices]; an error
\* raised by query() leaves the method as it is.
\* Variant: a failing traversal is turned into an empty list.
QueryOutcomeSwallow(resp) ==
    IF resp.kind = "raise" THEN Return(<<>>)
    ELSE Return([i \in 1..Len(resp.value.vertices) |->
                    to_lineage_object(resp.value.vertices[i])])

QueryOutcome(resp) ==
    IF resp.kind = "raise" THEN resp
    ELSE Return([i \in 1..Len(resp.value.vertices) |->
                    to_lineage_object(resp.value.vertices[i])])

dataset_artifacts(arg) ==
    LET req == dataset_artifacts_request(rec.attrs, dataset_artifacts_direction(arg))
    IN  /\ rec.live
        /\ last' = Log("dataset_artifacts", arg, rec.attrs["trial_component_arn"],
                       <<req>>, QueryOutcome(LineageQuery_query(req.kwargs)))
        /\ UNCHANGED <<store, tags, graph, engine, rec, orig, touched, nAssign, nEnv>>

models(arg) ==
    LET req == models_request(rec.attrs, models_direction(arg))
    IN  /\ rec.live
        /\ last' = Log("models", arg, rec.attrs["trial_component_arn"],
                       <<req>>, QueryOutcome(LineageQuery_query(req.kwargs)))
        /\ UNCHANGED <<store, tags, graph, engine, rec, orig, touched, nAssign, nEnv>>

DirectionArgs == LineageQueryDirectionEnum \cup {Omitted}

-----------------------------------------------------------------------------
(* Changes made to the remote services by other parties *)

AddTag(a, t) ==
    /\ nEnv < MaxEnv
    /\ tags' = [tags EXCEPT ![a] = Append(@, t)]
    /\ nEnv' = nEnv + 1
    /\ UNCHANGED <<store, graph, engine, rec, orig, touched, last, nAssign>>

AddVertex(v) ==
    /\ nEnv < MaxEnv
    /\ v \notin Range(graph)
    /\ graph' = Append(graph, v)
    /\ nEnv' = nEnv + 1
    /\ UNCHANGED <<store, tags, engine, rec, orig, touched, last, nAssign>>

EngineConditions == {"ok", "ValidationError", "ThrottlingException"}

SetEngine(c) ==
    /\ nEnv < MaxEnv
    /\ c # engine
    /\ engine' = c
    /\ nEnv' = nEnv + 1
    /\ UNCHANGED <<store, tags, graph, rec, orig, touched, last, nAssign>>

RemoteEdit(n, v) ==
    /\ nEnv < MaxEnv
    /\ store[n].exists
    /\ store[n].attrs["display_name"] # v
    /\ store' = [store EXCEPT ![n].attrs["display_name"] = v]
    /\ nEnv' = nEnv + 1
    /\ UNCHANGED <<tags, graph, engine, rec, orig, touched, last, nAssign>>

-----------------------------------------------------------------------------
(* The instance's life: loaded, assigned to, pushed, deleted, queried *)

Next ==
    \/ \E n \in Names : load(n)
    \/ \E f \in Fields : \E v \in AssignValues(f) : Assign(f, v)
    \/ update
    \/ delete
    \/ pipeline_execution_arn
    \/ \E d \in DirectionArgs : dataset_artifacts(d)
    \/ \E d \in DirectionArgs : models(d)

Spec == Init /\ [][Next]_vars

(* Read-only calls against remote services that other parties change *)

NextEnv ==
    \/ \E n \in Names : load(n)
    \/ pipeline_execution_arn
    \/ \E d \in DirectionArgs : dataset_artifacts(d)
    \/ \E d \in DirectionArgs : models(d)
    \/ \E a \in Arns : \E t \in TagUniverse : AddTag(a, t)
    \/ \E v \in VertexUniverse : AddVertex(v)
    \/ \E c \in EngineConditions : SetEngine(c)
    \/ \E n \in Names : \E v \in Vals : RemoteEdit(n, v)

SpecEnv == Init /\ [][NextEnv]_vars

-----------------------------------------------------------------------------
(* Properties *)

\* A step that is a call of op (every call flips the log's tick).
CallStep(op) == last'.tick # last.tick /\ last'.op = op

SelfArn == rec.attrs["trial_component_arn"]

\* The value of the first tag, in list order, with the reserved key; None if
\* no tag has it.
FirstMatch(ts) ==
    LET hits == {i \in 1..Len(ts) : ts[i].Key = PipelineExecutionArnKey}
    IN  IF hits = {} THEN None
        ELSE ts[CHOOSE i \in hits : \A j \in hits : i <= j].Value

\* What the engine returns now for a traversal from this record.
Traversal(sources, direction) ==
    [start_arns |-> <<SelfArn>>,
     query_filter |-> [entities |-> <<ARTIFACT>>, sources |-> sources],
     direction |-> direction, include_edges |-> FALSE]

Converted(result, vertices) ==
    /\ result.kind = "return"
    /\ Len(result.value) = Len(vertices)
    /\ \A i \in 1..Len(vertices) : result.value[i] = to_lineage_object(vertices[i])

\* C1: pipeline_execution_arn() asks list_tags for the record's
\* trial_component_arn and returns the value of the first returned tag keyed
\* "sagemaker:pipeline-execution-arn", or None, without raising, when no tag
\* has that key -- for any tag list (any length, order, duplicate keys).
C1_FirstPipelineTag ==
    [][CallStep("pipeline_execution_arn") =>
        /\ last'.reqs = <<[method |-> "list_tags",
                           kwargs |-> [ResourceArn |-> SelfArn]]>>
        /\ last'.result.kind = "return"
        /\ last'.result.value = FirstMatch(tags[SelfArn])]_vars

\* C1 witness: two tags with the reserved key and different values were
\* returned, and the call gave the first one's value.
C1_Witness ==
    /\ last.op = "pipeline_execution_arn"
    /\ last.self \in Arns
    /\ Len(tags[last.self]) = 2
    /\ tags[last.self][1].Key = PipelineExecutionArnKey
    /\ tags[last.self][2].Key = PipelineExecutionArnKey
    /\ tags[last.self][1].Value # tags[last.self][2].Value
    /\ last.result.value = tags[last.self][1].Value

\* C4: dataset_artifacts(direction) issues exactly one traversal request with
\* start_arns = [trial_component_arn], entities {ARTIFACT}, sources {DATASET},
\* the given direction (ASCENDANTS when omitted), include_edges = False, and
\* returns to_lineage_object() of every returned vertex, same length and order.
C4_DatasetArtifacts ==
    [][CallStep("dataset_artifacts") =>
        LET d == IF last'.arg = Omitted THEN ASCENDANTS ELSE last'.arg
            kwargs == Traversal(<<DATASET>>, d)
        IN  /\ last'.reqs = <<[method |-> "query", kwargs |-> kwargs]>>
            /\ engine = "ok" =>
                 Converted(last'.result, LineageQuery_query(kwargs).value.vertices)]_vars

\* C4 witness: a traversal in both directions returned two dataset vertices,
\* converted in the returned order.
C4_Witness ==
    /\ last.op = "dataset_artifacts"
    /\ last.arg = BOTH
    /\ last.result.kind = "return"
    /\ Len(last.result.value) = 2
    /\ Len(graph) = 2
    /\ last.result.value[1].artifact_arn = graph[1].arn
    /\ last.result.value[2].artifact_arn = graph[2].arn

\* C5: models() without a direction traverses DESCENDANTS with sources {MODEL};
\* an explicit direction replaces the default; apart from the source filter
\* and the default direction the request and the vertex-to-object mapping are
\* those of dataset_artifacts.
C5_Models ==
    [][CallStep("models") =>
        LET d == IF last'.arg = Omitted THEN DESCENDANTS ELSE last'.arg
            asDataset == dataset_artifacts_request(rec.attrs, d)
            req == [asDataset EXCEPT !.kwargs.query_filter.sources = <<MODEL>>]
        IN  /\ last'.reqs = <<req>>
            /\ req.kwargs.direction = d
            /\ engine = "ok" =>
                 Converted(last'.result,
                           LineageQuery_query(req.kwargs).value.vertices)]_vars

\* C5 witness: models() with the direction omitted asked for DESCENDANTS and
\* returned a model.
C5_Witness ==
    /\ last.op = "models"
    /\ last.arg = Omitted
    /\ last.reqs[1].kwargs.direction = DESCENDANTS
    /\ last.result.kind = "return"
    /\ Len(last.result.value) = 1
    /\ last.result.value[1].class = "ModelArtifact"

\* C6: when the traversal call fails, dataset_artifacts and models end in that
\* same error: no empty or partial list, no second request, no other error.
C6_TraversalErrorPropagates ==
    [][(CallStep("dataset_artifacts") \/ CallStep("models")) /\ engine # "ok" =>
        /\ Len(last'.reqs) = 1
        /\ last'.result.kind = "raise"
        /\ last'.result.value = engine]_vars

\* C6 witness: models() ended in the engine's throttling error.
C6_Witness ==
    /\ last.op = "models"
    /\ engine = "ThrottlingException"
    /\ last.result.kind = "raise"
    /\ last.result.value = "ThrottlingException"

\* What a read-only call returns when it is answered from the remote state as
\* it is now.
Fresh(op, arg) ==
    IF op = "load"
        THEN IF store[arg].exists THEN Return(store[arg].attrs)
             ELSE Raise("ResourceNotFound")
    ELSE IF op = "pipeline_execution_arn" THEN Return(FirstMatch(tags[SelfArn]))
    ELSE IF engine # "ok" THEN Raise(engine)
    ELSE LET d == IF arg # Omitted THEN arg
                  ELSE IF op = "models" THEN DESCENDANTS ELSE ASCENDANTS
             src == IF op = "models" THEN <<MODEL>> ELSE <<DATASET>>
             vs == LineageQuery_query(Traversal(src, d)).value.vertices
         IN  Return([i \in 1..Len(vs) |-> to_lineage_object(vs[i])])

ReadOps == {"load", "pipeline_execution_arn", "dataset_artifacts", "models"}

\* C10: no caching -- every call of load, pipeline_execution_arn,
\* dataset_artifacts and models, also one that repeats the previous call on the
\* same instance, issues its own remote request and returns the result for the
\* remote state at the time of the call, never the remembered one.
C10_NoCaching ==
    [][\A op \in ReadOps : CallStep(op) =>
        /\ Len(last'.reqs) = 1
        /\ last'.result.kind = Fresh(op, last'.arg).kind
        /\ last'.result.value = Fresh(op, last'.arg).value
        /\ last'.repeat =>
             (last'.changed <=>
                \/ last.result.kind # Fresh(op, last'.arg).kind
                \/ last.result.value # Fresh(op, last'.arg).value)]_vars

\* C10 witness: pipeline_execution_arn was called twice in a row on the same
\* instance, the tags changed in between, and the second result differs.
C10_Witness ==
    /\ last.op = "pipeline_execution_arn"
    /\ last.repeat
    /\ last.changed
    /\ last.result.value # None

\* The fields the update allow-list names.
UpdateAllowList == Range(_boto_update_members)

\* The fields of the instance whose value differs from the loaded one.
ChangedFields == {f \in Fields : rec.attrs[f] # orig[f]}

C3_Original ==
    rec.live => \A f \in Identity : rec.attrs[f] = orig[f]

\* C3 amended: as long as the caller does not assign to trial_component_name or
\* trial_component_arn themselves (plain attributes, which the class does not
\* protect), they equal their loaded values in every state reached through
\* assignments to other fields and update/delete/query calls.
C3_IdentityKeptUnlessAssigned ==
    rec.live /\ ~touched => \A f \in Identity : rec.attrs[f] = orig[f]

\* C3 witness: another field was reassigned and pushed by update, and name and
\* arn are still the loaded ones.
C3_Witness ==
    /\ rec.live
    /\ ~touched
    /\ last.op = "update"
    /\ last.result.kind = "return"
    /\ rec.attrs["display_name"] # orig["display_name"]
    /\ \A f \in Identity : rec.attrs[f] = orig[f]

\* C7: load(n) invokes describe_trial_component with n; when the store holds n
\* it returns a record whose trial_component_name is n, otherwise it ends in a
\* NotFound error and returns no record.
C7_Load ==
    [][\A n \in Names : CallStep("load") /\ last'.arg = n =>
        /\ last'.reqs = <<[method |-> "describe_trial_component",
                           kwargs |-> [trial_component_name |-> n]]>>
        /\ IF store[n].exists
             THEN /\ last'.result.kind = "return"
                  /\ last'.result.value["trial_component_name"] = n
                  /\ rec'.live
                  /\ rec'.attrs = last'.result.value
             ELSE /\ last'.result.kind = "raise"
                  /\ last'.result.value = "ResourceNotFound"
                  /\ rec' = rec]_vars

\* C7 witness: load("tc-2") returned a record named tc-2.
C7_Witness ==
    /\ last.op = "load"
    /\ last.arg = "tc-2"
    /\ last.result.kind = "return"
    /\ rec.attrs["trial_component_name"] = "tc-2"

\* C8: delete() sends only trial_component_name, whatever other fields of the
\* record are populated.
C8_DeletePayload ==
    [][CallStep("delete") =>
        /\ Len(last'.reqs) = 1
        /\ last'.reqs[1].method = "delete_trial_component"
        /\ DOMAIN last'.reqs[1].kwargs = {"trial_component_name"}
        /\ last'.reqs[1].kwargs["trial_component_name"] =
             rec.attrs["trial_component_name"]]_vars

\* C8 witness: a delete by a record that also holds a removal list and the
\* other descriptive fields.
C8_Witness ==
    /\ last.op = "delete"
    /\ last.result.kind = "return"
    /\ rec.attrs["parameters_to_remove"] # None
    /\ rec.attrs["display_name"] # None
    /\ rec.attrs["trial_component_arn"] # None

\* C9: local assignments reach the remote store only through update(): a step
\* that is not an update() or delete() call -- an assignment, load,
\* pipeline_execution_arn, dataset_artifacts, models -- leaves the remote
\* resources as they were, and a load returns exactly what the store holds.
C9_RemoteChangedOnlyByUpdate ==
    [][/\ store' # store => CallStep("update") \/ CallStep("delete")
       /\ CallStep("load") /\ last'.result.kind = "return" =>
            rec'.attrs = store[last'.arg].attrs]_vars

\* C9 witness: after an assignment that was never pushed, a fresh load of the
\* same name gave back the value from before the assignment.
C9_Witness ==
    /\ last.op = "load"
    /\ last.result.kind = "return"
    /\ nAssign = 1
    /\ rec.attrs = RemoteAttrs(last.arg)
    /\ store[last.arg].attrs = RemoteAttrs(last.arg)

====
